---- MODULE Spec2Model ----
(***************************************************************************)
(* Job scheduling, dependency fencing, dispatch, completion and reset of   *)
(* the rocket NPU driver (drivers/accel/rocket/rocket_job.c).              *)
(*                                                                         *)
(* The driver's functions are operators from a state record to a state     *)
(* record, so that a handler that calls other functions (rocket_reset ->   *)
(* rocket_job_handle_irq -> rocket_job_handle_done -> rocket_job_hw_submit)*)
(* is one sequential composition.  The state is the record st, with one    *)
(* field per piece of program state; an action applies a handler to it.    *)
(* The DRM scheduler, dma_fence and dma_resv are not part of the driver's  *)
(* sources; their operators carry the kernel's names (drm_sched, dma).     *)
(***************************************************************************)
EXTENDS Integers, Sequences, FiniteSets, TLC

(* ------------------------------ bounds -------------------------------- *)
NJobs == 2
MaxTasks == 2
NBufs == 2
MaxBos == 1
NumCores == 2
MaxFaults == 2
MaxBatch == 2
MaxTimeout == 1
NThreads == 2
MaxPushBos == 2

(* ------------------------- program constants -------------------------- *)
credit_limit == 1
hang_limit == 0
ECANCELED == 125
ENOENT == 2
ENOMEM == 12
EALREADY == 114
EBUSY == 16
EINVAL == 22
ETIMEDOUT == 110
ROCKET_PREP_READ == 1
ROCKET_PREP_WRITE == 2

NULL == 0
Jobs == 1..NJobs
Cores == 0..(NumCores - 1)
Bufs == 1..NBufs
Threads == 1..NThreads

\* A handle that names no buffer of the file.
BadHandle == NBufs + 1
Handles == Bufs \cup {BadHandle}

\* The whole state: one record with a field per piece of program state, so
\* that a handler is one function from state to state.
VARIABLE st

vars == <<st>>

njobs == st.njobs                       \* number of jobs created so far; job ids are submission order
task_count == st.task_count             \* rocket_job.task_count
in_bos == st.in_bos                     \* rocket_job.in_bos
out_bos == st.out_bos                   \* rocket_job.out_bos
next_task_idx == st.next_task_idx       \* rocket_job.next_task_idx (the cursor)
deps == st.deps                         \* drm_sched_job.dependencies, as the jobs whose fence is waited for
finished == st.finished                 \* rocket_job.inference_done_fence = base.s_fence->finished
done_fence == st.done_fence             \* rocket_job.done_fence, the fence rocket_job_run creates
parent == st.parent                     \* scheduler callback installed on done_fence (s_fence->parent)
sched == st.sched                       \* core whose scheduler the job was pushed to
karma == st.karma                       \* drm_sched_job.karma
resv == st.resv                         \* per buffer: fences attached to its reservation object
queue == st.queue                       \* per core: admission queue
pending_list == st.pending_list         \* per core: jobs handed to run_job and not finished
credit_count == st.credit_count         \* per core: drm_gpu_scheduler.credit_count
stopped == st.stopped                   \* per core: scheduler work queue stopped
in_flight_job == st.in_flight_job       \* rocket_core.in_flight_job
reset_pending == st.reset_pending       \* rocket_core.reset.pending
emit_seqno == st.emit_seqno             \* rocket_core.emit_seqno
hw == st.hw                             \* per core: hardware execution state
irq_mask == st.irq_mask                 \* per core: PC INTERRUPT_MASK has the DPU bits
thread_woken == st.thread_woken         \* per core: top half returned IRQ_WAKE_THREAD, thread not yet run
tpc == st.tpc                           \* per core: position of the timeout work (rocket_job_timedout)
bad == st.bad                           \* per core: the job the timeout work was called with
hw_done == st.hw_done                   \* history, per job: task indices the hardware completed
reset_count == st.reset_count           \* history, per job: rocket_reset runs with this job as bad
after_reset == st.after_reset           \* history, per job: pushed to a core that had been reset before
last_cpu_prep_op == st.last_cpu_prep_op \* rocket_gem_object.last_cpu_prep_op
leaked == st.leaked                     \* an array allocated by an ioctl was not freed
last_call == st.last_call               \* history: the last ioctl call and what it returned
push == st.push                         \* per submitting thread: its position in rocket_job_push and its locals
resv_lock == st.resv_lock               \* per buffer: thread holding the lock of its reservation object, or 0
sched_lock == st.sched_lock             \* thread holding rocket_device.sched_lock, or 0
ww_stamp == st.ww_stamp                 \* stamp given to the last ww_acquire_ctx
refcount == st.refcount                 \* rocket_job.refcount
awaits_free == st.awaits_free           \* per job: finished, and the scheduler has yet to call free_job for it
cleanups == st.cleanups                 \* history, per job: runs of rocket_job_cleanup
pm_usage == st.pm_usage                 \* per core: runtime-PM usage count above its idle baseline
attached == st.attached                 \* per core: an execution domain is attached to the core's IOMMU group
irq_ret == st.irq_ret                   \* history, per core: what rocket_job_irq_handler returned last
detached == st.detached                 \* history, per core: the last attach has been matched by a detach
double_signal == st.double_signal       \* history: a signal was applied to a fence that had signaled
faults == st.faults                     \* environment: stalls, failed power-ups and early timeouts so far

Cur == st

Set(t) == st' = t

NoFence == [seqno |-> 0, signaled |-> FALSE]
HwIdle == [st |-> "idle", job |-> NULL, task |-> 0]
NoPush == [pc |-> "idle", job |-> NULL, core |-> 0, bos |-> <<>>, nin |-> 0,
           i |-> 0, contended |-> 0, held |-> {}, stamp |-> 0, ret |-> 0,
           backoffs |-> 0]
NoCall == [op |-> "none", tick |-> FALSE, ret |-> 0, job_ret |-> 0,
           handle |-> 0, arg |-> 0, queued |-> 0]

Init ==
    st = [
        njobs |-> 0,
        task_count |-> [j \in Jobs |-> 0],
        in_bos |-> [j \in Jobs |-> {}],
        out_bos |-> [j \in Jobs |-> {}],
        next_task_idx |-> [j \in Jobs |-> 0],
        deps |-> [j \in Jobs |-> {}],
        finished |-> [j \in Jobs |-> [armed |-> FALSE, signaled |-> FALSE, error |-> 0]],
        done_fence |-> [j \in Jobs |-> NoFence],
        parent |-> [j \in Jobs |-> FALSE],
        sched |-> [j \in Jobs |-> 0],
        karma |-> [j \in Jobs |-> 0],
        resv |-> [b \in Bufs |-> {}],
        queue |-> [c \in Cores |-> <<>>],
        pending_list |-> [c \in Cores |-> {}],
        credit_count |-> [c \in Cores |-> 0],
        stopped |-> [c \in Cores |-> FALSE],
        in_flight_job |-> [c \in Cores |-> NULL],
        reset_pending |-> [c \in Cores |-> FALSE],
        emit_seqno |-> [c \in Cores |-> 0],
        hw |-> [c \in Cores |-> HwIdle],
        irq_mask |-> [c \in Cores |-> FALSE],
        thread_woken |-> [c \in Cores |-> FALSE],
        tpc |-> [c \in Cores |-> "idle"],
        bad |-> [c \in Cores |-> NULL],
        hw_done |-> [j \in Jobs |-> <<>>],
        reset_count |-> [j \in Jobs |-> 0],
        after_reset |-> [j \in Jobs |-> FALSE],
        last_cpu_prep_op |-> [b \in Bufs |-> 0],
        leaked |-> FALSE,
        last_call |-> NoCall,
        push |-> [t \in Threads |-> NoPush],
        resv_lock |-> [b \in Bufs |-> 0],
        sched_lock |-> 0,
        ww_stamp |-> 0,
        refcount |-> [j \in Jobs |-> 0],
        awaits_free |-> [j \in Jobs |-> FALSE],
        cleanups |-> [j \in Jobs |-> 0],
        pm_usage |-> [c \in Cores |-> 0],
        attached |-> [c \in Cores |-> FALSE],
        detached |-> [c \in Cores |-> FALSE],
        irq_ret |-> [c \in Cores |-> "never"],
        double_signal |-> FALSE,
        faults |-> 0]

(* ------------------- scheduler and fence primitives ------------------- *)

\* drm_sched_job_done: the job's finished fence signals (with the error, if
\* any), its credit returns to the scheduler and it leaves the pending list.
drm_sched_job_done(s, j, result) ==
    [s EXCEPT
        !.finished[j] = [armed |-> TRUE, signaled |-> TRUE,
                         error |-> IF result # 0 THEN result ELSE @.error],
        !.credit_count[s.sched[j]] = @ - 1,
        !.pending_list[s.sched[j]] = @ \ {j},
        !.parent[j] = FALSE,
        !.awaits_free[j] = TRUE,
        !.double_signal = @ \/ s.finished[j].signaled]

\* dma_fence_signal_locked on the job's done_fence: a fence signals once; the
\* scheduler's callback, when installed, finishes the job.
dma_fence_signal_locked(s, j) ==
    IF s.done_fence[j].signaled
    THEN [s EXCEPT !.double_signal = TRUE]
    ELSE LET s1 == [s EXCEPT !.done_fence[j].signaled = TRUE]
         IN IF s.parent[j] THEN drm_sched_job_done(s1, j, 0) ELSE s1

dma_fence_is_signaled(s, j) == s.done_fence[j].signaled

\* pm_runtime_get_sync takes a usage reference of the core, also when the
\* resume it asks for fails; pm_runtime_put_autosuspend and
\* pm_runtime_put_noidle drop one.
pm_runtime_get_sync(s, c) == [s EXCEPT !.pm_usage[c] = @ + 1]

pm_runtime_put(s, c) == [s EXCEPT !.pm_usage[c] = @ - 1]

\* iommu_attach_group and iommu_detach_group on the core's IOMMU group.
iommu_attach_group(s, c) ==
    [s EXCEPT !.attached[c] = TRUE, !.detached[c] = FALSE]

iommu_detach_group(s, c) ==
    [s EXCEPT !.attached[c] = FALSE, !.detached[c] = TRUE]

\* rocket_fence_create: a new unsignaled fence on the core's timeline.
rocket_fence_create(s, c) ==
    [st |-> [s EXCEPT !.emit_seqno[c] = @ + 1],
     fence |-> [seqno |-> s.emit_seqno[c] + 1, signaled |-> FALSE]]

(* ----------------------------- dispatcher ----------------------------- *)

\* Variant: the task is issued whether or not a reset is pending.
rocket_job_hw_submit_noguard(s, c, j) ==
    [s EXCEPT
        !.next_task_idx[j] = @ + 1,
        !.irq_mask[c] = TRUE,
        !.hw[c] = [st |-> "busy", job |-> j, task |-> s.next_task_idx[j]]]

\* rocket_job_hw_submit: nothing while a reset is pending; otherwise take
\* tasks[next_task_idx], advance the cursor, arm the interrupt and start.
rocket_job_hw_submit(s, c, j) ==
    IF s.reset_pending[c]
    THEN s
    ELSE [s EXCEPT
            !.next_task_idx[j] = @ + 1,
            !.irq_mask[c] = TRUE,
            !.hw[c] = [st |-> "busy", job |-> j, task |-> s.next_task_idx[j]]]

(* ------------------------- completion handler ------------------------- *)

\* Variant: the fence signals after the first completion, whatever remains.
rocket_job_handle_done_early(s, c, j) ==
    dma_fence_signal_locked(
            iommu_detach_group([s EXCEPT !.in_flight_job[c] = NULL], c), j)

\* Variant: the fence signals but the job stays in the slot.
rocket_job_handle_done_keep_slot(s, c, j) ==
    IF s.next_task_idx[j] < s.task_count[j]
    THEN rocket_job_hw_submit(s, c, j)
    ELSE dma_fence_signal_locked(iommu_detach_group(s, c), j)

\* Variant: the domain stays attached when the job completes.
rocket_job_handle_done_no_detach(s, c, j) ==
    IF s.next_task_idx[j] < s.task_count[j]
    THEN rocket_job_hw_submit(s, c, j)
    ELSE dma_fence_signal_locked([s EXCEPT !.in_flight_job[c] = NULL], j)

\* Variant: one more dispatch after the last task.
rocket_job_handle_done_overrun(s, c, j) ==
    IF s.next_task_idx[j] <= s.task_count[j]
    THEN rocket_job_hw_submit(s, c, j)
    ELSE dma_fence_signal_locked(
            iommu_detach_group([s EXCEPT !.in_flight_job[c] = NULL], c), j)

\* rocket_job_handle_done: next task of the same job, or clear the slot,
\* detach the domain and signal done_fence.
rocket_job_handle_done(s, c, j) ==
    IF s.next_task_idx[j] < s.task_count[j]
    THEN rocket_job_hw_submit(s, c, j)
    ELSE pm_runtime_put(
            dma_fence_signal_locked(
                iommu_detach_group([s EXCEPT !.in_flight_job[c] = NULL], c), j),
            c)

\* rocket_job_handle_irq: stop the operation, clear the interrupt status and
\* handle the in-flight job, whatever the status read was.
rocket_job_handle_irq(s, c) ==
    LET s1 == [s EXCEPT !.hw[c] = IF @.st \in {"done", "busy"} THEN HwIdle ELSE @]
    IN IF s1.in_flight_job[c] # NULL
       THEN rocket_job_handle_done(s1, c, s1.in_flight_job[c])
       ELSE s1

(* -------------------------------- run --------------------------------- *)

\* Variant: a job whose finished fence carries an error is run all the same.
rocket_job_run_noerrcheck(s, j, ok) ==
    LET c == s.sched[j] IN
    IF s.next_task_idx[j] = s.task_count[j]
    THEN [st |-> s, fence |-> FALSE]
    ELSE LET f == rocket_fence_create(s, c)
             s1 == [f.st EXCEPT !.done_fence[j] = f.fence]
         IN IF ~ok
            THEN [st |-> s1, fence |-> TRUE]
            ELSE [st |-> rocket_job_hw_submit(
                            [iommu_attach_group(s1, c) EXCEPT
                                !.in_flight_job[c] = j], c, j),
                  fence |-> TRUE]

\* Variant: the job starts from its first task whenever it is run.
rocket_job_run_restart(s, j, ok) ==
    LET c == s.sched[j] IN
    IF s.finished[j].error # 0 \/ s.next_task_idx[j] = s.task_count[j]
    THEN [st |-> s, fence |-> FALSE]
    ELSE LET f == rocket_fence_create(s, c)
             s1 == [f.st EXCEPT !.done_fence[j] = f.fence]
         IN IF ~ok
            THEN [st |-> s1, fence |-> TRUE]
            ELSE [st |-> rocket_job_hw_submit(
                            [iommu_attach_group(s1, c) EXCEPT
                                !.in_flight_job[c] = j,
                                !.next_task_idx[j] = 0], c, j),
                  fence |-> TRUE]

\* Variant: a job whose tasks were all issued is run again.
rocket_job_run_nodonecheck(s, j, ok) ==
    LET c == s.sched[j] IN
    IF s.finished[j].error # 0
    THEN [st |-> s, fence |-> FALSE]
    ELSE LET f == rocket_fence_create(s, c)
             s1 == [f.st EXCEPT !.done_fence[j] = f.fence]
         IN IF ~ok
            THEN [st |-> s1, fence |-> TRUE]
            ELSE [st |-> rocket_job_hw_submit(
                            [iommu_attach_group(s1, c) EXCEPT
                                !.in_flight_job[c] = j], c, j),
                  fence |-> TRUE]


\* Variant: the job is installed in the slot before the power-up and the
\* attach are known to have succeeded.
rocket_job_run_install_first(s, j, ok) ==
    LET c == s.sched[j] IN
    IF s.finished[j].error # 0 \/ s.next_task_idx[j] = s.task_count[j]
    THEN [st |-> s, fence |-> FALSE]
    ELSE LET f == rocket_fence_create(s, c)
             s1 == [f.st EXCEPT !.done_fence[j] = f.fence, !.in_flight_job[c] = j]
             s2 == pm_runtime_get_sync(s1, c)
         IN IF ~ok
            THEN [st |-> s2, fence |-> TRUE]
            ELSE [st |-> rocket_job_hw_submit(iommu_attach_group(s2, c), c, j),
                  fence |-> TRUE]

\* rocket_job_run: no fence for a job whose finished fence carries an error or
\* whose tasks were all issued; otherwise a new done_fence, and, when the
\* power-up and the domain attach succeed (ok), the domain is attached, the
\* job is installed in the core's slot and its next task issued.
rocket_job_run(s, j, ok) ==
    LET c == s.sched[j] IN
    IF s.finished[j].error # 0 \/ s.next_task_idx[j] = s.task_count[j]
    THEN [st |-> s, fence |-> FALSE]
    ELSE LET f == rocket_fence_create(s, c)
             s1 == [f.st EXCEPT !.done_fence[j] = f.fence]
             s2 == pm_runtime_get_sync(s1, c)
         IN IF ~ok
            THEN [st |-> s2, fence |-> TRUE]
            ELSE [st |-> rocket_job_hw_submit(
                            [iommu_attach_group(s2, c) EXCEPT
                                !.in_flight_job[c] = j], c, j),
                  fence |-> TRUE]

(* ------------------------ dependency tracking ------------------------- *)

\* dma_resv_usage_rw: a writer waits for readers and writers, a reader for
\* writers only.
dma_resv_usage_rw(is_write) == IF is_write THEN {"WRITE", "READ"} ELSE {"WRITE"}

\* Variant: only a write access waits for the fences of its buffers.
rocket_acquire_object_fences_write_only(s, bos, j, is_write) ==
    IF ~is_write
    THEN s
    ELSE [s EXCEPT !.deps[j] = @ \cup
            {f.job : f \in {g \in UNION {s.resv[b] : b \in bos} :
                                g.usage \in dma_resv_usage_rw(is_write)}}]

\* Variant: the job waits for the fences of every buffer of the device.
rocket_acquire_object_fences_all_bos(s, bos, j, is_write) ==
    [s EXCEPT !.deps[j] = @ \cup
        {f.job : f \in {g \in UNION {s.resv[b] : b \in Bufs} :
                            g.usage \in dma_resv_usage_rw(is_write)}}]

\* rocket_acquire_object_fences: the fences of every listed buffer that the
\* access must wait for become dependencies of the job.
rocket_acquire_object_fences(s, bos, j, is_write) ==
    [s EXCEPT !.deps[j] = @ \cup
        {f.job : f \in {g \in UNION {s.resv[b] : b \in bos} :
                            g.usage \in dma_resv_usage_rw(is_write)}}]

\* rocket_attach_object_fences: the job's fence is added to every listed
\* buffer with DMA_RESV_USAGE_WRITE.
rocket_attach_object_fences(s, bos, j) ==
    [s EXCEPT !.resv = [b \in Bufs |->
        IF b \in bos THEN @[b] \cup {[job |-> j, usage |-> "WRITE"]} ELSE @[b]]]

\* drm_sched_job_arm and drm_sched_entity_push_job: the finished fence exists
\* from arming on; the job enters the admission queue of the selected core.
drm_sched_job_arm(s, j, c) ==
    [s EXCEPT !.finished[j] = [armed |-> TRUE, signaled |-> FALSE, error |-> 0],
              !.sched[j] = c]

drm_sched_entity_push_job(s, j) ==
    [s EXCEPT !.queue[s.sched[j]] = Append(@, j)]

\* kref_get on the job's refcount.
kref_get(s, j) == [s EXCEPT !.refcount[j] = @ + 1]

\* rocket_job_cleanup: the job's fences, buffer references, tasks and the job
\* itself are released.
rocket_job_cleanup(s, j) == [s EXCEPT !.cleanups[j] = @ + 1]

\* Variant: the reference of the submit call is dropped twice.
rocket_job_put_twice(s, j) ==
    LET s1 == [s EXCEPT !.refcount[j] = @ - 2]
    IN IF s1.refcount[j] <= 0 THEN rocket_job_cleanup(s1, j) ELSE s1

\* rocket_job_put: kref_put with rocket_job_cleanup as the release function.
rocket_job_put(s, j) ==
    LET s1 == [s EXCEPT !.refcount[j] = @ - 1]
    IN IF s1.refcount[j] = 0 THEN rocket_job_cleanup(s1, j) ELSE s1

\* rocket_job_free, the scheduler's free_job callback.
rocket_job_free(s, j) == rocket_job_put([s EXCEPT !.awaits_free[j] = FALSE], j)

\* rocket_job_push: under the buffers' reservation locks and sched_lock, arm
\* the job, collect the dependencies of the input and of the output buffers,
\* push the job, then attach its fence to the output buffers only.
rocket_job_push(s, j, c) ==
    LET s1 == drm_sched_job_arm(s, j, c)
        s2 == rocket_acquire_object_fences(s1, s1.in_bos[j], j, FALSE)
        s3 == rocket_acquire_object_fences(s2, s2.out_bos[j], j, TRUE)
        s4 == drm_sched_entity_push_job(kref_get(s3, j), j)
    IN rocket_attach_object_fences(s4, s4.out_bos[j], j)

CoreWasReset(s, c) == \E k \in Jobs : s.sched[k] = c /\ s.reset_count[k] > 0

\* rocket_copy_tasks from task i on: the first task with a non-zero reserved
\* field ends the copy with -EINVAL and without freeing the copied array; the
\* first one with no command ends it with -EINVAL through the fail label.
RECURSIVE rocket_copy_tasks_from(_, _)
rocket_copy_tasks_from(job, i) ==
    IF i > job.task_count
    THEN [ret |-> 0, leak |-> FALSE]
    ELSE IF job.tasks[i].reserved # 0
    THEN [ret |-> -EINVAL, leak |-> TRUE]
    ELSE IF job.tasks[i].regcmd_count = 0
    THEN [ret |-> -EINVAL, leak |-> FALSE]
    ELSE rocket_copy_tasks_from(job, i + 1)

rocket_copy_tasks(job) == rocket_copy_tasks_from(job, 1)

\* drm_gem_objects_lookup: every handle must name a buffer of the file.
drm_gem_objects_lookup(handles) == IF handles \subseteq Bufs THEN 0 ELSE -ENOENT

\* The value rocket_ioctl_submit_job returns for a descriptor.
rocket_ioctl_submit_job_ret(job) ==
    IF job.task_count = 0 THEN -EINVAL
    ELSE IF rocket_copy_tasks(job).ret # 0 THEN rocket_copy_tasks(job).ret
    ELSE IF drm_gem_objects_lookup(job.in_bos) # 0
    THEN drm_gem_objects_lookup(job.in_bos)
    ELSE drm_gem_objects_lookup(job.out_bos)

\* rocket_ioctl_submit_job: a rejected descriptor (empty task list, a task
\* that rocket_copy_tasks refuses, an unknown handle) queues nothing;
\* otherwise the job is created from the descriptor and pushed.
rocket_ioctl_submit_job(s, job, c) ==
    IF rocket_ioctl_submit_job_ret(job) # 0
    THEN [s EXCEPT !.leaked = @ \/ (job.task_count # 0 /\ rocket_copy_tasks(job).leak)]
    ELSE LET j == s.njobs + 1
             s1 == [s EXCEPT !.njobs = j,
                             !.task_count[j] = job.task_count,
                             !.in_bos[j] = job.in_bos,
                             !.out_bos[j] = job.out_bos,
                             !.refcount[j] = 1,
                             !.after_reset[j] = CoreWasReset(s, c)]
         IN rocket_job_put(rocket_job_push(s1, j, c), j)

\* The ioctl returns ret to the caller.
Return(s, call, ret, job_ret, handle, arg) ==
    [s EXCEPT !.last_call = [op |-> call, tick |-> ~@.tick, ret |-> ret,
                             job_ret |-> job_ret, handle |-> handle,
                             arg |-> arg, queued |-> 0]]

\* Variant: the loop ends at the first job that rocket_ioctl_submit_job
\* refuses and the call returns that job's error.
RECURSIVE rocket_ioctl_submit_from_checked(_, _, _, _, _)
rocket_ioctl_submit_from_checked(s, jobs, i, c, job_ret) ==
    IF i > Len(jobs)
    THEN Return(s, "submit", 0, job_ret, 0, 0)
    ELSE IF jobs[i].reserved # 0
    THEN Return([s EXCEPT !.leaked = TRUE], "submit", -EINVAL, job_ret, 0, 0)
    ELSE IF rocket_ioctl_submit_job_ret(jobs[i]) # 0
    THEN Return(rocket_ioctl_submit_job(s, jobs[i], c), "submit",
                rocket_ioctl_submit_job_ret(jobs[i]),
                rocket_ioctl_submit_job_ret(jobs[i]), 0, 0)
    ELSE rocket_ioctl_submit_from_checked(
            rocket_ioctl_submit_job(s, jobs[i], c), jobs, i + 1, c, job_ret)

\* The loop of rocket_ioctl_submit from job i on.  job_ret is the first
\* non-zero value a rocket_ioctl_submit_job of this call returned; the loop
\* does not look at it.  A descriptor with a non-zero reserved field ends the
\* call with -EINVAL, the jobs array not freed.
RECURSIVE rocket_ioctl_submit_from(_, _, _, _, _)
rocket_ioctl_submit_from(s, jobs, i, c, job_ret) ==
    IF i > Len(jobs)
    THEN Return(s, "submit", 0, job_ret, 0, 0)
    ELSE IF jobs[i].reserved # 0
    THEN Return([s EXCEPT !.leaked = TRUE], "submit", -EINVAL, job_ret, 0, 0)
    ELSE rocket_ioctl_submit_from(
            rocket_ioctl_submit_job(s, jobs[i], c), jobs, i + 1, c,
            IF job_ret = 0 THEN rocket_ioctl_submit_job_ret(jobs[i])
            ELSE job_ret)

\* rocket_ioctl_submit: the jobs of args are submitted in order.  The history
\* keeps how many jobs the call has queued.
rocket_ioctl_submit(s, args, c) ==
    LET r == IF args.reserved # 0
             THEN Return(s, "submit", -EINVAL, 0, 0, 0)
             ELSE rocket_ioctl_submit_from(s, args.jobs, 1, c, 0)
    IN [r EXCEPT !.last_call.queued = r.njobs - s.njobs]

\* dma_resv_wait_timeout on the buffer's fences of the given usages: the
\* remaining time (at least 1) when they have all signaled, 0 when the wait
\* ends with one of them unsignaled.
dma_resv_wait_timeout(s, b, usages, timeout) ==
    IF \A f \in s.resv[b] : f.usage \in usages => s.finished[f.job].signaled
    THEN (IF timeout = 0 THEN 1 ELSE timeout)
    ELSE 0

\* Variant: a call that may not wait reports the buffer busy.
rocket_ioctl_prep_bo_poll(s, handle, op, timeout) ==
    IF op \div (2 * ROCKET_PREP_WRITE) # 0
    THEN Return(s, "prep_bo", -EINVAL, 0, handle, op)
    ELSE IF handle \notin Bufs
    THEN Return(s, "prep_bo", -ENOENT, 0, handle, op)
    ELSE LET write == (op \div ROCKET_PREP_WRITE) % 2 = 1
             wait == IF timeout = 0 THEN 0
                     ELSE dma_resv_wait_timeout(s, handle,
                                                dma_resv_usage_rw(write), timeout)
             ret == IF wait = 0
                    THEN (IF timeout # 0 THEN -ETIMEDOUT ELSE -EBUSY)
                    ELSE wait
         IN Return([s EXCEPT !.last_cpu_prep_op[handle] = op],
                   "prep_bo", ret, 0, handle, op)

\* rocket_ioctl_prep_bo: wait for the buffer's fences that conflict with the
\* CPU access op, for at most timeout (the time left to the absolute
\* deadline of the call), and record op in the buffer.
rocket_ioctl_prep_bo(s, handle, op, timeout) ==
    IF op \div (2 * ROCKET_PREP_WRITE) # 0
    THEN Return(s, "prep_bo", -EINVAL, 0, handle, op)
    ELSE IF handle \notin Bufs
    THEN Return(s, "prep_bo", -ENOENT, 0, handle, op)
    ELSE LET write == (op \div ROCKET_PREP_WRITE) % 2 = 1
             wait == dma_resv_wait_timeout(s, handle,
                                           dma_resv_usage_rw(write), timeout)
             ret == IF wait = 0
                    THEN (IF timeout # 0 THEN -ETIMEDOUT ELSE -EBUSY)
                    ELSE wait
         IN Return([s EXCEPT !.last_cpu_prep_op[handle] = op],
                   "prep_bo", ret, 0, handle, op)

(* ----------------- rocket_job_push, thread by thread ------------------ *)

\* The buffers at positions lo..hi of a thread's bos array.
BoSet(bos, lo, hi) == {bos[k] : k \in lo..hi}

\* rocket_ioctl_submit_job up to its call of rocket_job_push: the job is
\* created from the buffer lists; bos is in_bos followed by out_bos, as
\* rocket_job_push copies them.  drm_gem_lock_reservations starts with
\* ww_acquire_init, which stamps the acquire context.
rocket_job_push_enter(s, t, d, c) ==
    LET j == s.njobs + 1 IN
    [s EXCEPT !.njobs = j,
              !.task_count[j] = 1,
              !.in_bos[j] = BoSet(d.bos, 1, d.nin),
              !.out_bos[j] = BoSet(d.bos, d.nin + 1, Len(d.bos)),
              !.refcount[j] = 1,
              !.ww_stamp = @ + 1,
              !.push[t] = [NoPush EXCEPT !.pc = "lock", !.job = j, !.core = c,
                                         !.bos = d.bos, !.nin = d.nin, !.i = 1,
                                         !.stamp = s.ww_stamp + 1]]

\* Every reservation lock the thread holds is released.
dma_resv_unlock_all(s, t) ==
    [s EXCEPT !.resv_lock = [b \in Bufs |-> IF @[b] = t THEN 0 ELSE @[b]],
              !.push[t].held = {}]

\* The thread must wait for the lock of bos[i]: another context holds it,
\* and this context is the older one or holds no lock yet.
MustWait(s, t) ==
    LET p == s.push[t] IN
    /\ p.pc = "lock"
    /\ p.i <= Len(p.bos)
    /\ p.i # p.contended
    /\ s.resv_lock[p.bos[p.i]] \notin {0, t}
    /\ (p.held = {} \/ p.stamp < s.push[s.resv_lock[p.bos[p.i]]].stamp)

\* Variant: a context waits for any lock another context holds.
drm_gem_lock_reservations_nodie(s, t) ==
    LET p == s.push[t] IN
    IF p.i > Len(p.bos)
    THEN [s EXCEPT !.push[t].pc = "sched_lock"]
    ELSE IF s.resv_lock[p.bos[p.i]] = 0
    THEN [s EXCEPT !.resv_lock[p.bos[p.i]] = t,
                   !.push[t].held = @ \cup {p.bos[p.i]},
                   !.push[t].i = @ + 1]
    ELSE IF s.resv_lock[p.bos[p.i]] = t
    THEN [dma_resv_unlock_all(s, t) EXCEPT !.push[t].ret = -EALREADY,
                                           !.push[t].pc = "return"]
    ELSE s

\* One turn of the loop of drm_gem_lock_reservations, locks taken under a
\* wait-die acquire context: the lock of bos[i] is taken when it is free
\* (the one taken by the slow path is skipped); a buffer listed twice gives
\* -EALREADY; a younger context that holds locks and finds an older one
\* holding bos[i] backs off (-EDEADLK), releasing what it holds, and takes
\* the contended lock first in its next round.
drm_gem_lock_reservations(s, t) ==
    LET p == s.push[t] IN
    IF p.i > Len(p.bos)
    THEN [s EXCEPT !.push[t].pc = "sched_lock"]
    ELSE IF p.i = p.contended
    THEN [s EXCEPT !.push[t].i = @ + 1]
    ELSE IF s.resv_lock[p.bos[p.i]] = 0
    THEN [s EXCEPT !.resv_lock[p.bos[p.i]] = t,
                   !.push[t].held = @ \cup {p.bos[p.i]},
                   !.push[t].i = @ + 1]
    ELSE IF s.resv_lock[p.bos[p.i]] = t
    THEN [dma_resv_unlock_all(s, t) EXCEPT !.push[t].ret = -EALREADY,
                                           !.push[t].pc = "return"]
    ELSE IF MustWait(s, t)
    THEN s
    ELSE [dma_resv_unlock_all(s, t) EXCEPT !.push[t].contended = p.i,
                                           !.push[t].backoffs = 1,
                                           !.push[t].pc = "slow"]

\* dma_resv_lock_slow on the contended buffer, once its lock is free.
dma_resv_lock_slow(s, t) ==
    LET p == s.push[t] IN
    [s EXCEPT !.resv_lock[p.bos[p.contended]] = t,
              !.push[t].held = {p.bos[p.contended]},
              !.push[t].i = 1,
              !.push[t].pc = "lock"]

\* mutex_lock(&rdev->sched_lock).
sched_lock_take(s, t) ==
    [s EXCEPT !.sched_lock = t, !.push[t].pc = "in_fences"]

\* The err_unlock path: sched_lock is dropped by its guard, the reservation
\* locks are released, ret goes back to rocket_ioctl_submit_job.
rocket_job_push_err_unlock(s, t, ret) ==
    [dma_resv_unlock_all(s, t) EXCEPT !.sched_lock = 0,
                                      !.push[t].ret = ret,
                                      !.push[t].pc = "return"]

\* drm_sched_job_arm, then rocket_acquire_object_fences on in_bos: the loop
\* runs over the first n input buffers and fails with -ENOMEM at the next
\* one when there is one.
rocket_job_push_in_fences(s, t, n) ==
    LET p == s.push[t]
        s1 == drm_sched_job_arm(s, p.job, p.core)
        s2 == rocket_acquire_object_fences(s1, BoSet(p.bos, 1, n), p.job, FALSE)
    IN IF n < p.nin
       THEN rocket_job_push_err_unlock(s2, t, -ENOMEM)
       ELSE [s2 EXCEPT !.push[t].pc = "out_fences"]

\* rocket_acquire_object_fences on out_bos, likewise.
rocket_job_push_out_fences(s, t, n) ==
    LET p == s.push[t]
        s1 == rocket_acquire_object_fences(
                 s, BoSet(p.bos, p.nin + 1, p.nin + n), p.job, TRUE)
    IN IF p.nin + n < Len(p.bos)
       THEN rocket_job_push_err_unlock(s1, t, -ENOMEM)
       ELSE [s1 EXCEPT !.push[t].pc = "push"]

\* Variant: the reservation locks are released before the fence is attached.
rocket_job_push_entity_unlock(s, t) ==
    LET p == s.push[t] IN
    [dma_resv_unlock_all(
        drm_sched_entity_push_job(kref_get(s, p.job), p.job), t) EXCEPT
        !.sched_lock = 0, !.push[t].pc = "attach"]

\* kref_get, drm_sched_entity_push_job, and the end of the sched_lock scope.
rocket_job_push_entity(s, t) ==
    LET p == s.push[t] IN
    [drm_sched_entity_push_job(kref_get(s, p.job), p.job) EXCEPT
        !.sched_lock = 0, !.push[t].pc = "attach"]

\* rocket_attach_object_fences on out_bos.
rocket_job_push_attach(s, t) ==
    LET p == s.push[t] IN
    [rocket_attach_object_fences(s, s.out_bos[p.job], p.job) EXCEPT
        !.push[t].pc = "unlock"]

\* drm_gem_unlock_reservations, kfree(bos), return 0.
rocket_job_push_unlock(s, t) ==
    [dma_resv_unlock_all(s, t) EXCEPT !.push[t].pc = "return"]

\* drm_sched_job_cleanup: the dependencies the job collected are dropped.
drm_sched_job_cleanup(s, j) == [s EXCEPT !.deps[j] = {}]

\* Variant: a failed push leaves the job as it is.
rocket_ioctl_submit_job_return_nocleanup(s, t) ==
    [rocket_job_put(s, s.push[t].job) EXCEPT !.push[t].pc = "done"]

\* The end of rocket_ioctl_submit_job after rocket_job_push returned: a job
\* whose push failed is cleaned up; the reference of the call is dropped.
rocket_ioctl_submit_job_return(s, t) ==
    LET p == s.push[t]
        s1 == IF p.ret # 0 THEN drm_sched_job_cleanup(s, p.job) ELSE s
    IN [rocket_job_put(s1, p.job) EXCEPT !.push[t].pc = "done"]

(* ----------------------------- scheduler ------------------------------ *)

RECURSIVE SetToSeq(_)
SetToSeq(S) ==
    IF S = {} THEN <<>>
    ELSE LET m == CHOOSE x \in S : \A y \in S : x <= y
         IN <<m>> \o SetToSeq(S \ {m})

DepsSignaled(s, j) == \A d \in s.deps[j] : s.finished[d].signaled

\* drm_sched_run_job_work: the head of the queue runs when its dependencies
\* have signaled and the scheduler has a credit left.
drm_sched_run_job_work(s, c, ok) ==
    LET j == Head(s.queue[c])
        s1 == [s EXCEPT !.queue[c] = Tail(@),
                        !.credit_count[c] = @ + 1,
                        !.pending_list[c] = @ \cup {j}]
        r == rocket_job_run(s1, j, ok)
    IN IF r.fence
       THEN [r.st EXCEPT !.parent[j] = TRUE]
       ELSE drm_sched_job_done(r.st, j, 0)

\* drm_sched_stop: the work queue stops; the callbacks of the pending jobs are
\* removed from their hardware fences and their credits taken back.
drm_sched_stop(s, c) ==
    [s EXCEPT !.stopped[c] = TRUE,
              !.parent = [j \in Jobs |-> IF j \in s.pending_list[c] THEN FALSE ELSE @[j]],
              !.credit_count[c] = @ - Cardinality(s.pending_list[c])]

\* Variant: a timeout leaves the job's karma as it is.
drm_sched_increase_karma_none(s, j) == s

drm_sched_increase_karma(s, j) == [s EXCEPT !.karma[j] = @ + 1]

\* drm_sched_resubmit_jobs: every pending job is handed to run_job again, a
\* job whose karma exceeds the hang limit with -ECANCELED set on its fence.
RECURSIVE drm_sched_resubmit_jobs(_, _, _)
drm_sched_resubmit_jobs(s, js, ok) ==
    IF js = <<>> THEN s
    ELSE LET j == Head(js)
             s1 == IF s.karma[j] > hang_limit
                   THEN [s EXCEPT !.finished[j].error = ECANCELED]
                   ELSE s
             r == rocket_job_run(s1, j, ok)
         IN drm_sched_resubmit_jobs([r.st EXCEPT !.parent[j] = r.fence], Tail(js), ok)

\* drm_sched_start: the pending jobs get their credits back; a job without a
\* hardware fence finishes with -ECANCELED, one whose fence has signaled
\* finishes, the others get their callback back; then the work queue restarts.
RECURSIVE drm_sched_start_jobs(_, _)
drm_sched_start_jobs(s, js) ==
    IF js = <<>> THEN s
    ELSE LET j == Head(js)
             s1 == [s EXCEPT !.credit_count[s.sched[j]] = @ + 1]
             s2 == IF ~s1.parent[j] THEN drm_sched_job_done(s1, j, ECANCELED)
                   ELSE IF s1.done_fence[j].signaled THEN drm_sched_job_done(s1, j, 0)
                   ELSE s1
         IN drm_sched_start_jobs(s2, Tail(js))

drm_sched_start(s, c) ==
    [drm_sched_start_jobs(s, SetToSeq(s.pending_list[c])) EXCEPT !.stopped[c] = FALSE]

(* -------------------------- reset / recovery -------------------------- *)

\* Variant: the power cycle takes every core of the device down.
pm_runtime_force_cycle_all(s, c) ==
    [s EXCEPT !.hw = [d \in Cores |-> HwIdle],
              !.irq_mask = [d \in Cores |-> FALSE]]

\* pm_runtime_force_suspend + pm_runtime_force_resume: the core loses whatever
\* it was executing and its interrupt registers return to their reset values.
pm_runtime_force_cycle(s, c) ==
    [s EXCEPT !.hw[c] = HwIdle, !.irq_mask[c] = FALSE]

\* Variant: the scheduler is left running.
rocket_reset_stop_nostop(s, c, b) ==
    IF ~s.reset_pending[c]
    THEN [s EXCEPT !.tpc[c] = "detach"]
    ELSE LET s2 == IF b # NULL THEN drm_sched_increase_karma(s, b) ELSE s
         IN [s2 EXCEPT !.irq_mask[c] = FALSE,
                       !.reset_count[b] = @ + 1,
                       !.tpc[c] = "irq"]

\* rocket_reset, in the three stretches between which other threads can run:
\*   "stop"      check reset.pending, stop the scheduler, karma, mask interrupts
\*   "irq"       (after synchronize_irq) handle the remaining interrupt, empty
\*               the slot, power-cycle the core, clear reset.pending
\*   "resubmit"  resubmit the pending jobs and restart the scheduler
rocket_reset_stop(s, c, b) ==
    IF ~s.reset_pending[c]
    THEN [s EXCEPT !.tpc[c] = "detach"]
    ELSE LET s1 == drm_sched_stop(s, c)
             s2 == IF b # NULL THEN drm_sched_increase_karma(s1, b) ELSE s1
         IN [s2 EXCEPT !.irq_mask[c] = FALSE,
                       !.reset_count[b] = @ + 1,
                       !.tpc[c] = "irq"]

\* Variant: the slot keeps what the interrupt handling left in it.
rocket_reset_irq_keep_slot(s, c) ==
    LET s1 == rocket_job_handle_irq(s, c)
        s3 == pm_runtime_force_cycle(s1, c)
    IN [s3 EXCEPT !.reset_pending[c] = FALSE, !.tpc[c] = "resubmit"]

\* Variant: reset.pending stays set after the power cycle.
rocket_reset_irq_keep_pending(s, c) ==
    LET s1 == rocket_job_handle_irq(s, c)
        s2 == [s1 EXCEPT !.in_flight_job[c] = NULL]
        s3 == pm_runtime_force_cycle(s2, c)
    IN [s3 EXCEPT !.tpc[c] = "resubmit"]

rocket_reset_irq(s, c) ==
    LET s1 == rocket_job_handle_irq(s, c)
        s2 == [(IF s1.in_flight_job[c] # NULL THEN pm_runtime_put(s1, c) ELSE s1)
                  EXCEPT !.in_flight_job[c] = NULL]
        s3 == pm_runtime_force_cycle(s2, c)
    IN [s3 EXCEPT !.reset_pending[c] = FALSE, !.tpc[c] = "resubmit"]

rocket_reset_resubmit(s, c, ok) ==
    LET s1 == drm_sched_resubmit_jobs(s, SetToSeq(s.pending_list[c]), ok)
        s2 == drm_sched_start(s1, c)
    IN [s2 EXCEPT !.tpc[c] = "detach"]

rocket_reset(s, c, b, ok) ==
    CASE s.tpc[c] = "stop" -> rocket_reset_stop(s, c, b)
      [] s.tpc[c] = "irq" -> rocket_reset_irq(s, c)
      [] s.tpc[c] = "resubmit" -> rocket_reset_resubmit(s, c, ok)
      [] OTHER -> s

\* Variant: the fence is not looked at again after synchronize_irq.
rocket_job_timedout_norecheck(s, c) ==
    CASE s.tpc[c] = "check1" ->
            IF dma_fence_is_signaled(s, s.bad[c])
            THEN [s EXCEPT !.tpc[c] = "idle", !.bad[c] = NULL]
            ELSE [s EXCEPT !.tpc[c] = "sync"]
      [] s.tpc[c] = "sync" ->
            [s EXCEPT !.tpc[c] = "set_pending"]
      [] s.tpc[c] = "set_pending" ->
            [s EXCEPT !.reset_pending[c] = TRUE, !.tpc[c] = "stop"]
      [] s.tpc[c] = "detach" ->
            [iommu_detach_group(s, c) EXCEPT !.tpc[c] = "idle", !.bad[c] = NULL]
      [] OTHER -> s

\* rocket_job_timedout, by the position of the timeout work:
\*   "check1"       first look at done_fence
\*   "sync"         (after synchronize_irq) second look at done_fence
\*   "set_pending"  atomic_set(&core->reset.pending, 1), then rocket_reset
\*   "detach"       iommu_detach_group after rocket_reset returned
rocket_job_timedout(s, c) ==
    CASE s.tpc[c] = "check1" ->
            IF dma_fence_is_signaled(s, s.bad[c])
            THEN [s EXCEPT !.tpc[c] = "idle", !.bad[c] = NULL]
            ELSE [s EXCEPT !.tpc[c] = "sync"]
      [] s.tpc[c] = "sync" ->
            IF dma_fence_is_signaled(s, s.bad[c])
            THEN [s EXCEPT !.tpc[c] = "idle", !.bad[c] = NULL]
            ELSE [s EXCEPT !.tpc[c] = "set_pending"]
      [] s.tpc[c] = "set_pending" ->
            [s EXCEPT !.reset_pending[c] = TRUE, !.tpc[c] = "stop"]
      [] s.tpc[c] = "detach" ->
            [iommu_detach_group(s, c) EXCEPT !.tpc[c] = "idle", !.bad[c] = NULL]
      [] OTHER -> s

(* ------------------------------ actions ------------------------------- *)

\* Buffer handles a descriptor can name: buffers are interchangeable, so a
\* buffer no job has named yet is the lowest such one.
KnownBufs ==
    {b \in Bufs : b = 1 \/ \E k \in 1..njobs : (b - 1) \in in_bos[k] \cup out_bos[k]}

\* A drm_rocket_job descriptor with n tasks, each with a command.
Desc(n, ins, outs) ==
    [reserved |-> 0, task_count |-> n,
     tasks |-> [i \in 1..n |-> [reserved |-> 0, regcmd_count |-> 1]],
     in_bos |-> ins, out_bos |-> outs]

\* The drm_rocket_job descriptors of a submit call.
JobDescs ==
    {Desc(d.task_count, d.in_bos, d.out_bos) :
        d \in {e \in [task_count : 0..MaxTasks, in_bos : SUBSET KnownBufs,
                      out_bos : SUBSET KnownBufs] :
                 Cardinality(e.in_bos) + Cardinality(e.out_bos) <= MaxBos}}

\* Descriptors that rocket_ioctl_submit or rocket_ioctl_submit_job refuses:
\* a one-task job writing buffer 1 with one field spoiled.
Malformed ==
    LET d == Desc(1, {}, {1}) IN
    {[d EXCEPT !.task_count = 0, !.tasks = <<>>],
     [d EXCEPT !.tasks[1].regcmd_count = 0],
     [d EXCEPT !.tasks[1].reserved = 1],
     [d EXCEPT !.reserved = 1],
     [d EXCEPT !.in_bos = {BadHandle}],
     [d EXCEPT !.out_bos = {BadHandle}]}

\* The job arrays of a submit call: any descriptor alone, or up to MaxBatch
\* one-task or refused descriptors.
BatchDescs == Malformed \cup {d \in JobDescs : d.task_count = 1}

Batches ==
    {<<d>> : d \in JobDescs \cup Malformed}
        \cup UNION {[1..n -> BatchDescs] : n \in 2..MaxBatch}

SubmitArgs ==
    {[reserved |-> 0, jobs |-> b] : b \in Batches}
        \cup {[reserved |-> 1, jobs |-> <<Desc(1, {}, {1})>>]}

\* drm_sched_entity_select_rq: the entity takes any core's scheduler; among
\* cores that never had a job (they are interchangeable) the first one.
SelectableCores ==
    {c \in Cores : c = 0 \/ \E k \in 1..njobs : sched[k] = c - 1}

\* A client submits a job; the scheduling entity selects a core.
Submit ==
    /\ njobs < NJobs
    /\ \E job \in JobDescs, c \in SelectableCores :
          Set(rocket_ioctl_submit_job(Cur, job, c))

\* A client calls the submit ioctl with up to MaxBatch jobs.
SubmitBatch ==
    \E args \in SubmitArgs, c \in SelectableCores :
        /\ njobs + Len(args.jobs) <= NJobs
        /\ Set(rocket_ioctl_submit(Cur, args, c))

\* The op of a prep_bo call: a read, a write, or a bit that is no access.
PrepOps == {ROCKET_PREP_READ, ROCKET_PREP_WRITE, 2 * ROCKET_PREP_WRITE}

\* A client calls the prep_bo ioctl; timeout is the time left to the call's
\* absolute deadline.
PrepBo ==
    \E handle \in Handles, op \in PrepOps, timeout \in 0..MaxTimeout :
        Set(rocket_ioctl_prep_bo(Cur, handle, op, timeout))

\* Outcomes of pm_runtime_get_sync and iommu_attach_group in rocket_job_run.
PowerUp == IF faults < MaxFaults THEN BOOLEAN ELSE {TRUE}

\* The scheduler's run work of core c.
RunJobWith(c, outcomes) ==
    /\ ~stopped[c]
    /\ queue[c] # <<>>
    /\ credit_count[c] < credit_limit
    /\ DepsSignaled(Cur, Head(queue[c]))
    /\ \E ok \in outcomes :
          Set([drm_sched_run_job_work(Cur, c, ok) EXCEPT
                  !.faults = IF ok THEN @ ELSE @ + 1])

RunJob(c) == RunJobWith(c, PowerUp)

RunJobOk(c) == RunJobWith(c, {TRUE})

\* The hardware finishes the task it is executing and raises the DPU status.
HwComplete(c) ==
    /\ hw[c].st = "busy"
    /\ Set([Cur EXCEPT !.hw[c].st = "done",
                       !.hw_done[hw[c].job] = Append(@, hw[c].task)])

\* The hardware hangs on the task it is executing.
HwStall(c) ==
    /\ hw[c].st = "busy"
    /\ faults < MaxFaults
    /\ Set([Cur EXCEPT !.hw[c].st = "stalled", !.faults = @ + 1])

\* Variant: the raw status is not examined.
rocket_job_irq_handler_nocheck(s, c) ==
    [s EXCEPT !.irq_mask[c] = FALSE, !.thread_woken[c] = TRUE,
              !.irq_ret[c] = "IRQ_WAKE_THREAD"]

\* rocket_job_irq_handler (top half): with a DPU status bit set, mask the
\* interrupt and wake the thread; IRQ_NONE otherwise.
rocket_job_irq_handler(s, c) ==
    IF s.hw[c].st # "done"
    THEN [s EXCEPT !.irq_ret[c] = "IRQ_NONE"]
    ELSE [s EXCEPT !.irq_mask[c] = FALSE, !.thread_woken[c] = TRUE,
                   !.irq_ret[c] = "IRQ_WAKE_THREAD"]

IrqTopHalf(c) ==
    /\ hw[c].st = "done"
    /\ irq_mask[c]
    /\ ~thread_woken[c]
    /\ Set(rocket_job_irq_handler(Cur, c))

\* The interrupt line of core c is raised while the raw status has neither
\* DPU bit set (another status bit, or no source at all).
IrqSpurious(c) ==
    /\ hw[c].st # "done"
    /\ Set(rocket_job_irq_handler(Cur, c))

\* rocket_job_irq_handler_thread (bottom half).
rocket_job_irq_handler_thread(s, c) ==
    [rocket_job_handle_irq(s, c) EXCEPT !.thread_woken[c] = FALSE]

IrqThread(c) ==
    /\ thread_woken[c]
    /\ Set(rocket_job_irq_handler_thread(Cur, c))

\* drm_sched_job_timedout: the timeout of the pending job expires and the
\* timeout work is queued with it.
Progressing(c) == hw[c].st \in {"busy", "done"} \/ thread_woken[c]

TimerFire(c) ==
    /\ tpc[c] = "idle"
    /\ ~stopped[c]
    /\ pending_list[c] # {}
    /\ Progressing(c) => faults < MaxFaults
    /\ Set([Cur EXCEPT !.tpc[c] = "check1",
                       !.bad[c] = Head(SetToSeq(pending_list[c])),
                       !.faults = IF Progressing(c) THEN @ + 1 ELSE @])

Timedout(c) ==
    /\ tpc[c] \in {"check1", "sync", "set_pending", "detach"}
    /\ tpc[c] = "sync" => ~thread_woken[c]
    /\ Set(rocket_job_timedout(Cur, c))

ResetWith(c, outcomes) ==
    /\ tpc[c] \in {"stop", "irq", "resubmit"}
    /\ tpc[c] = "irq" => ~thread_woken[c]
    /\ \E ok \in (IF tpc[c] = "resubmit" THEN outcomes ELSE {TRUE}) :
          Set([rocket_reset(Cur, c, bad[c], ok) EXCEPT
                  !.faults = IF ok THEN @ ELSE @ + 1])

Reset(c) == ResetWith(c, PowerUp)

ResetOk(c) == ResetWith(c, {TRUE})

Next ==
    \/ Submit
    \/ \E c \in Cores : RunJob(c)
    \/ \E c \in Cores : HwComplete(c)
    \/ \E c \in Cores : HwStall(c)
    \/ \E c \in Cores : IrqTopHalf(c)
    \/ \E c \in Cores : IrqThread(c)
    \/ \E c \in Cores : TimerFire(c)
    \/ \E c \in Cores : Timedout(c)
    \/ \E c \in Cores : Reset(c)

Spec == Init /\ [][Next]_vars

\* Hardware that completes every issued task in time and power-up that never
\* fails: no stall, no timeout.  The scheduler's work, the hardware and the
\* interrupt handlers all run when they can.
LiveNext ==
    \/ Submit
    \/ \E c \in Cores : RunJobOk(c)
    \/ \E c \in Cores : HwComplete(c)
    \/ \E c \in Cores : IrqTopHalf(c)
    \/ \E c \in Cores : IrqThread(c)

\* Every step but a submission.  No behaviour takes infinitely many of these
\* steps (each one advances a job, a handler or the hardware), so weak
\* fairness of their disjunction is weak fairness of each of them.
LiveProgress ==
    \E c \in Cores :
        RunJobOk(c) \/ HwComplete(c) \/ IrqTopHalf(c) \/ IrqThread(c)

LiveSpec == Init /\ [][LiveNext]_vars /\ WF_vars(LiveProgress)

\* The timeout of a job whose task the hardware is not executing expires.
TimerFireHung(c) == ~Progressing(c) /\ TimerFire(c)

\* Hardware that may stall, power-up that never fails, and a timeout long
\* enough for a task that the hardware does complete.  The timer of a hung job
\* expires in finite time and the timeout work, like the other work items and
\* handlers, runs when it can.
FairNext ==
    \/ Submit
    \/ \E c \in Cores : RunJobOk(c)
    \/ \E c \in Cores : HwComplete(c)
    \/ \E c \in Cores : HwStall(c)
    \/ \E c \in Cores : IrqTopHalf(c)
    \/ \E c \in Cores : IrqThread(c)
    \/ \E c \in Cores : TimerFireHung(c)
    \/ \E c \in Cores : Timedout(c)
    \/ \E c \in Cores : ResetOk(c)

\* Every step but a submission and a stall (see LiveProgress).
FairProgress ==
    \E c \in Cores :
        \/ RunJobOk(c) \/ HwComplete(c) \/ IrqTopHalf(c) \/ IrqThread(c)
        \/ TimerFireHung(c) \/ Timedout(c) \/ ResetOk(c)

FairSpec == Init /\ [][FairNext]_vars /\ WF_vars(FairProgress)

\* drm_sched_free_job_work: the scheduler of the job's core, when it is
\* running, frees a finished job that no timeout handler is working on.
FreeJob(j) ==
    /\ awaits_free[j]
    /\ ~stopped[sched[j]]
    /\ \A c \in Cores : bad[c] # j
    /\ Set(rocket_job_free(Cur, j))

\* Buffer lists of a concurrent submission: in_bos (the first nin entries)
\* followed by out_bos, in any order, a buffer possibly listed twice.
PushDescs ==
    {[bos |-> q, nin |-> n] :
        q \in UNION {[1..m -> Bufs] : m \in 0..MaxPushBos}, n \in 0..MaxPushBos}
        \ {d \in [bos : UNION {[1..m -> Bufs] : m \in 0..MaxPushBos},
                   nin : 0..MaxPushBos] : d.nin > Len(d.bos)}

\* Thread t enters rocket_ioctl_submit_job with a job of one task.
PushEnter(t) ==
    /\ push[t].pc = "idle"
    /\ njobs < NJobs
    /\ \E d \in PushDescs, c \in SelectableCores :
          Set(rocket_job_push_enter(Cur, t, d, c))

PushLock(t) ==
    /\ push[t].pc = "lock"
    /\ drm_gem_lock_reservations(Cur, t) # Cur
    /\ Set(drm_gem_lock_reservations(Cur, t))

PushLockSlow(t) ==
    /\ push[t].pc = "slow"
    /\ resv_lock[push[t].bos[push[t].contended]] = 0
    /\ Set(dma_resv_lock_slow(Cur, t))

PushSchedLock(t) ==
    /\ push[t].pc = "sched_lock"
    /\ sched_lock = 0
    /\ Set(sched_lock_take(Cur, t))

\* dma_resv_reserve_fences or drm_sched_job_add_implicit_dependencies may
\* fail at any buffer.
PushInFences(t) ==
    /\ push[t].pc = "in_fences"
    /\ \E n \in 0..push[t].nin : Set(rocket_job_push_in_fences(Cur, t, n))

PushOutFences(t) ==
    /\ push[t].pc = "out_fences"
    /\ \E n \in 0..(Len(push[t].bos) - push[t].nin) :
          Set(rocket_job_push_out_fences(Cur, t, n))

PushEntity(t) ==
    /\ push[t].pc = "push"
    /\ Set(rocket_job_push_entity(Cur, t))

PushAttach(t) ==
    /\ push[t].pc = "attach"
    /\ Set(rocket_job_push_attach(Cur, t))

PushUnlock(t) ==
    /\ push[t].pc = "unlock"
    /\ Set(rocket_job_push_unlock(Cur, t))

PushReturn(t) ==
    /\ push[t].pc = "return"
    /\ Set(rocket_ioctl_submit_job_return(Cur, t))

\* A step of thread t inside rocket_ioctl_submit_job.
PushStep(t) ==
    \/ PushLock(t)
    \/ PushLockSlow(t)
    \/ PushSchedLock(t)
    \/ PushInFences(t)
    \/ PushOutFences(t)
    \/ PushEntity(t)
    \/ PushAttach(t)
    \/ PushUnlock(t)
    \/ PushReturn(t)

\* Threads that submit concurrently, on hardware that completes every task.
PushNext ==
    \/ \E t \in Threads : PushEnter(t)
    \/ \E t \in Threads : PushStep(t)
    \/ \E c \in Cores : RunJobOk(c)
    \/ \E c \in Cores : HwComplete(c)
    \/ \E c \in Cores : IrqTopHalf(c)
    \/ \E c \in Cores : IrqThread(c)

PushSpec == Init /\ [][PushNext]_vars

\* The submitting threads alone; a thread inside the ioctl keeps running.
LockNext ==
    \/ \E t \in Threads : PushEnter(t)
    \/ \E t \in Threads : PushStep(t)

LockSpec ==
    Init /\ [][LockNext]_vars /\ \A t \in Threads : WF_vars(PushStep(t))

\* The driver with the scheduler freeing finished jobs.
LifeNext == Next \/ \E j \in Jobs : FreeJob(j)

LifeSpec == Init /\ [][LifeNext]_vars

\* The driver with interrupts that arrive without a completion.
IrqNext == Next \/ \E c \in Cores : IrqSpurious(c)

IrqSpec == Init /\ [][IrqNext]_vars

\* Clients that submit batches, well formed or not, to hardware that
\* completes every task.
IoctlNext ==
    \/ SubmitBatch
    \/ \E c \in Cores : RunJobOk(c)
    \/ \E c \in Cores : HwComplete(c)
    \/ \E c \in Cores : IrqTopHalf(c)
    \/ \E c \in Cores : IrqThread(c)

IoctlSpec == Init /\ [][IoctlNext]_vars

\* Clients that submit jobs and wait for buffers, on hardware that completes
\* every task.
WaitNext == LiveNext \/ PrepBo

WaitSpec == Init /\ [][WaitNext]_vars

(* ------------------------------ claims -------------------------------- *)

\* All tasks of job j were issued and each was completed by the hardware.
AllTasksDone(j) ==
    /\ next_task_idx[j] = task_count[j]
    /\ hw_done[j] = [i \in 1..task_count[j] |-> i - 1]

Submitted(j) == j <= njobs
Touches(j) == in_bos[j] \cup out_bos[j]

\* C1: a job's done_fence is signaled only if all of its tasks were issued
\* and the hardware completed each of them (no early completion), also in
\* the states reached through a timeout and rocket_reset.
C1_NoEarlyCompletion ==
    \A j \in Jobs : done_fence[j].signaled => AllTasksDone(j)

\* C2: when J1 writes a buffer and the later job J2 reads or writes it, J2
\* has no task issued while J1's fence is unsignaled.
C2_RawWawOrder ==
    \A j1, j2 \in Jobs :
        (/\ j1 < j2 /\ Submitted(j2)
         /\ out_bos[j1] \cap Touches(j2) # {}
         /\ next_task_idx[j2] > 0)
        => finished[j1].signaled

C2_Witness ==
    \E j1, j2 \in Jobs :
        /\ j1 < j2 /\ Submitted(j2)
        /\ out_bos[j1] \cap in_bos[j2] # {}
        /\ sched[j1] # sched[j2]
        /\ hw[sched[j2]].st = "busy" /\ hw[sched[j2]].job = j2

\* C3: when J1 reads a buffer and the later job J2 writes it, J2 has no task
\* issued while J1's fence is unsignaled (write after read).
C3_WarOrder ==
    \A j1, j2 \in Jobs :
        (/\ j1 < j2 /\ Submitted(j2)
         /\ in_bos[j1] \cap out_bos[j2] # {}
         /\ next_task_idx[j2] > 0)
        => finished[j1].signaled

\* C4: a core's in-flight slot only changes from empty to a job or from a job
\* to empty, never from one job to another; a job occupies the slot of its
\* own core only.
C4_OneInFlightPerCore ==
    [][\A c \in Cores :
          /\ (in_flight_job'[c] # in_flight_job[c] /\ in_flight_job'[c] # NULL)
                => in_flight_job[c] = NULL
          /\ in_flight_job'[c] # NULL => sched'[in_flight_job'[c]] = c]_vars

C4_Witness ==
    \E c \in Cores :
        /\ in_flight_job[c] # NULL
        /\ hw[c].st = "busy"
        /\ queue[c] # <<>>
        /\ DepsSignaled(Cur, Head(queue[c]))

\* C5: with hardware that completes every task and fair scheduling, every
\* submitted job's fence eventually signals without error, all of its tasks
\* having been issued and completed in order.
C5_EventualCompletion ==
    \A j \in Jobs :
        Submitted(j) ~> (/\ finished[j].signaled
                         /\ finished[j].error = 0
                         /\ AllTasksDone(j))

C5_Witness ==
    \A j \in Jobs :
        /\ Submitted(j) /\ finished[j].signaled /\ AllTasksDone(j)
        /\ task_count[j] = MaxTasks

\* C6: jobs with disjoint buffer sets do not wait for each other.
C6_DisjointUnordered ==
    \A j1, j2 \in Jobs :
        (Submitted(j1) /\ Submitted(j2) /\ Touches(j1) \cap Touches(j2) = {})
        => j1 \notin deps[j2]

C6_Witness ==
    \E j1, j2 \in Jobs :
        /\ j1 # j2
        /\ Touches(j1) # {} /\ Touches(j2) # {}
        /\ Touches(j1) \cap Touches(j2) = {}
        /\ in_flight_job[0] = j1 /\ hw[0].st = "busy"
        /\ in_flight_job[1] = j2 /\ hw[1].st = "busy"

\* The last stretch of rocket_reset of core c (resubmit and restart) is taken.
ResetFinishes(c) == tpc[c] = "resubmit" /\ tpc'[c] = "detach"

\* Some stretch of rocket_reset of core c is taken.
ResetStep(c) == tpc[c] \in {"stop", "irq", "resubmit"} /\ tpc'[c] # tpc[c]

\* C7: when rocket_reset returns for a hung job (a job still unfinished when
\* the core was power-cycled), the core's slot is empty and reset.pending is
\* clear, wherever the job stood when its timeout expired.
C7_SlotEmptyAfterReset ==
    [][\A c \in Cores :
          (ResetFinishes(c) /\ ~finished[bad[c]].signaled)
          => (in_flight_job'[c] = NULL /\ ~reset_pending'[c])]_vars

C7_Witness ==
    \E c \in Cores :
        /\ tpc[c] = "detach"
        /\ bad[c] # NULL
        /\ reset_count[bad[c]] = 1
        /\ finished[bad[c]].error = ECANCELED
        /\ 0 < next_task_idx[bad[c]] /\ next_task_idx[bad[c]] < task_count[bad[c]]
        /\ in_flight_job[c] = NULL

\* C8: no stretch of rocket_reset lowers a cursor; the jobs waiting in the
\* admission queues stay there, unsignaled, without error and with their
\* cursor; a job the reset hands to the hardware again is issued its task
\* tasks[cursor], for the cursor it had before, and the scheduler runs again
\* when the reset returns.
C8_CursorsPreserved ==
    [][\A c \in Cores :
          ResetStep(c) =>
            /\ \A j \in Jobs : next_task_idx'[j] >= next_task_idx[j]
            /\ queue' = queue
            /\ \A d \in Cores : \A i \in 1..Len(queue[d]) :
                  /\ next_task_idx'[queue[d][i]] = next_task_idx[queue[d][i]]
                  /\ finished'[queue[d][i]] = finished[queue[d][i]]
                  /\ ~finished[queue[d][i]].signaled
                  /\ finished[queue[d][i]].error = 0
            /\ ResetFinishes(c) =>
                  /\ ~stopped'[c]
                  /\ hw'[c].st = "busy" =>
                        /\ hw'[c].task = next_task_idx[hw'[c].job]
                        /\ next_task_idx'[hw'[c].job] = next_task_idx[hw'[c].job] + 1]_vars

C8_Witness ==
    \E c \in Cores : \E j \in Jobs :
        /\ tpc[c] = "detach"
        /\ j # bad[c]
        /\ in_flight_job[c] = j
        /\ hw[c] = [st |-> "busy", job |-> j, task |-> 1]
        /\ hw_done[j] = <<>>

\* C9: a job is the bad job of at most one reset, and a core whose hardware
\* hangs on a task is reset (its hang ends, which only the power cycle of
\* rocket_reset does): one reset per hang, not none and not two.
C9_OneResetPerHang ==
    /\ [](\A j \in Jobs : reset_count[j] <= 1)
    /\ \A c \in Cores : (hw[c].st = "stalled") ~> (hw[c].st # "stalled")

C9_Witness ==
    \E c \in Cores : \E j \in Jobs :
        /\ sched[j] = c
        /\ reset_count[j] = 1
        /\ tpc[c] = "idle"
        /\ hw[c].st = "idle"
        /\ finished[j].signaled /\ finished[j].error = ECANCELED
        /\ faults = 1
        /\ Len(hw_done[j]) < next_task_idx[j]

\* C10: every submitted job's fence eventually signals (with or without an
\* error), a hung one included, and every submitted job, one pushed to a core
\* after its reset included, eventually has a task issued to the hardware.
C10_RecoversAndAcceptsWork ==
    \A j \in Jobs :
        Submitted(j) ~> (finished[j].signaled /\ next_task_idx[j] > 0)

C10_Witness ==
    \E j \in Jobs :
        /\ after_reset[j]
        /\ finished[j].signaled /\ finished[j].error = 0
        /\ AllTasksDone(j)

\* C14: no signal is applied to a fence that has signaled; a signaled fence
\* (the hardware fence done_fence or the finished fence) stays as it is, and
\* an error set on a fence stays.
C14_FenceSignalsOnce ==
    [][/\ ~double_signal'
       /\ \A j \in Jobs :
            /\ done_fence[j].signaled => done_fence'[j] = done_fence[j]
            /\ finished[j].signaled => finished'[j] = finished[j]
            /\ finished[j].error # 0 => finished'[j].error = finished[j].error]_vars

C14_Witness ==
    \E j \in Jobs :
        /\ reset_count[j] = 1
        /\ done_fence[j].signaled
        /\ finished[j].signaled /\ finished[j].error = ECANCELED

\* C15: every cursor stays within 0..task_count and no step lowers one.
C15_CursorInvariant ==
    /\ [](\A j \in Jobs : 0 <= next_task_idx[j] /\ next_task_idx[j] <= task_count[j])
    /\ [][\A j \in Jobs : next_task_idx'[j] >= next_task_idx[j]]_vars

C15_Witness ==
    \E j \in Jobs :
        /\ reset_count[j] = 1
        /\ task_count[j] = MaxTasks
        /\ next_task_idx[j] = task_count[j]
        /\ Len(hw_done[j]) < task_count[j]

\* The hardware of core c holds a task of the job in the core's slot that the
\* driver has not yet seen complete.
HwOutstanding(c) ==
    /\ hw[c].st \in {"busy", "done", "stalled"}
    /\ hw[c].job = in_flight_job[c]

\* C16: a core's slot is non-null only while the hardware has an issued task
\* of that job outstanding.
C16_SlotImpliesOutstanding ==
    \A c \in Cores : in_flight_job[c] # NULL => HwOutstanding(c)

\* The detach at the end of rocket_job_timedout is performed on core c.
TimedoutDetaches(c) == tpc[c] = "detach" /\ tpc'[c] = "idle"

\* The detach of rocket_job_handle_done is performed on core c.
CompletionDetaches(c) ==
    /\ in_flight_job[c] # NULL /\ in_flight_job'[c] = NULL
    /\ ~done_fence[in_flight_job[c]].signaled
    /\ done_fence'[in_flight_job[c]].signaled

\* C17: a domain is attached to a core only while a job occupies the core's
\* slot (or the timeout handler that emptied the slot has still to reach its
\* detach), and no detach is performed for an attach that a detach has
\* matched already.
C17_DomainAttachment ==
    [][\A c \in Cores :
          /\ attached'[c] => (in_flight_job'[c] # NULL \/ tpc'[c] # "idle")
          /\ (TimedoutDetaches(c) \/ CompletionDetaches(c)) => ~detached[c]]_vars

\* A task is started on core c.
Started(c) == hw'[c].st = "busy" /\ hw'[c] # hw[c]

\* C18: while reset.pending is set on a core no task is started there, no
\* cursor of a job of that core moves and the interrupt mask is not armed;
\* a cursor only moves by one, with reset.pending clear, and then the task
\* started is tasks[cursor] of that job.
C18_HwSubmitGuard ==
    [][\A c \in Cores :
          /\ reset_pending[c] =>
                /\ ~Started(c)
                /\ irq_mask'[c] => irq_mask[c]
                /\ \A j \in Jobs : (Submitted(j) /\ sched[j] = c)
                      => next_task_idx'[j] = next_task_idx[j]
          /\ \A j \in Jobs :
                (Submitted(j) /\ sched[j] = c
                    /\ next_task_idx'[j] # next_task_idx[j])
                => /\ ~reset_pending[c]
                   /\ next_task_idx'[j] = next_task_idx[j] + 1
                   /\ hw'[c] = [st |-> "busy", job |-> j, task |-> next_task_idx[j]]
          /\ Started(c) =>
                next_task_idx'[hw'[c].job] = next_task_idx[hw'[c].job] + 1]_vars

C18_Witness ==
    \E c \in Cores : \E j \in Jobs :
        /\ reset_pending[c]
        /\ in_flight_job[c] = j
        /\ next_task_idx[j] = 0
        /\ hw[c].st = "idle"

\* The bottom half (rocket_job_irq_handler_thread) of core c runs.
ThreadStep(c) == thread_woken[c] /\ ~thread_woken'[c]

\* The job in the slot is issued its next task and stays in the slot.
Continues(c, j) ==
    /\ in_flight_job'[c] = j
    /\ hw'[c] = [st |-> "busy", job |-> j, task |-> next_task_idx[j]]
    /\ next_task_idx'[j] = next_task_idx[j] + 1
    /\ ~done_fence'[j].signaled
    /\ queue' = queue

\* The job leaves the slot, the domain is detached and done_fence signals.
Completes(c, j) ==
    /\ in_flight_job'[c] = NULL
    /\ ~attached'[c]
    /\ done_fence'[j].signaled
    /\ next_task_idx'[j] = next_task_idx[j]

\* C19 as stated: a bottom-half run for an in-flight job either dispatches
\* the job's next task (tasks remaining) or completes the job.
C19_BottomHalfAsStated ==
    [][\A c \in Cores :
          (ThreadStep(c) /\ in_flight_job[c] # NULL) =>
            LET j == in_flight_job[c] IN
            IF next_task_idx[j] < task_count[j]
            THEN Continues(c, j)
            ELSE Completes(c, j)]_vars

\* C19 amended: as stated, except that with tasks remaining and reset.pending
\* set nothing is dispatched: the job stays in the slot with its cursor and
\* the hardware is left stopped.
C19_BottomHalf ==
    [][\A c \in Cores :
          (ThreadStep(c) /\ in_flight_job[c] # NULL) =>
            LET j == in_flight_job[c] IN
            IF next_task_idx[j] < task_count[j]
            THEN IF reset_pending[c]
                 THEN /\ in_flight_job'[c] = j
                      /\ next_task_idx'[j] = next_task_idx[j]
                      /\ hw'[c].st # "busy"
                      /\ ~done_fence'[j].signaled
                      /\ queue' = queue
                 ELSE Continues(c, j)
            ELSE Completes(c, j)]_vars

C19_Witness ==
    \E c \in Cores : \E j \in Jobs :
        /\ reset_pending[c]
        /\ in_flight_job[c] = j
        /\ ~thread_woken[c]
        /\ hw[c].st = "idle"
        /\ 0 < next_task_idx[j] /\ next_task_idx[j] < task_count[j]
        /\ Len(hw_done[j]) = next_task_idx[j]

\* C20: an interrupt taken while the raw status of the core has no completion
\* bit returns IRQ_NONE and changes nothing: the interrupt mask, the thread,
\* the cursors, the slots and the fences are as before, and the threaded
\* handler is never woken without a completion.
C20_SpuriousIgnored ==
    [][\A c \in Cores :
          hw[c].st # "done" =>
            /\ thread_woken'[c] => thread_woken[c]
            /\ irq_ret'[c] # irq_ret[c] =>
                  st' = [st EXCEPT !.irq_ret[c] = "IRQ_NONE"]]_vars

C20_Witness ==
    \E c \in Cores :
        /\ irq_ret[c] = "IRQ_NONE"
        /\ in_flight_job[c] # NULL
        /\ hw[c].st = "busy"
        /\ irq_mask[c]
        /\ ~thread_woken[c]

\* A submit ioctl returns in this step.
SubmitReturns == last_call'.tick # last_call.tick /\ last_call'.op = "submit"

\* C11: a submit call in which a job or the call itself is refused queues no
\* job, publishes no fence and leaves the queue and fence state of every
\* core and buffer, and the memory of the driver, as before the call.
C11_NoSideEffects ==
    [][(SubmitReturns /\ (last_call'.ret # 0 \/ last_call'.job_ret # 0)) =>
          /\ njobs' = njobs
          /\ queue' = queue
          /\ resv' = resv
          /\ deps' = deps
          /\ finished' = finished
          /\ leaked' = leaked]_vars

\* C12: a submit call in which rocket_ioctl_submit_job refused a job returns
\* that job's error.
C12_ErrorsReturned ==
    (last_call.op = "submit" /\ last_call.job_ret # 0)
        => last_call.ret = last_call.job_ret

\* A prep_bo ioctl on buffer b with access op returns in this step.
PrepReturns(b, op) ==
    /\ last_call'.tick # last_call.tick
    /\ last_call'.op = "prep_bo"
    /\ last_call'.handle = b
    /\ last_call'.arg = op

\* The fences of buffer b that a CPU access op waits for have signaled.
FencesSignaled(b, op) ==
    \A f \in resv[b] :
        f.usage \in dma_resv_usage_rw((op \div ROCKET_PREP_WRITE) % 2 = 1)
            => finished[f.job].signaled

\* C13: a prep_bo call made when the fences it waits for have signaled
\* reports success whatever time is left to its deadline, and changes
\* nothing of the jobs, fences and buffers but the buffer's
\* last_cpu_prep_op, which a call with the same op leaves as it is.
C13_WaitIdempotent ==
    [][\A b \in Bufs : \A op \in {ROCKET_PREP_READ, ROCKET_PREP_WRITE} :
          (PrepReturns(b, op) /\ FencesSignaled(b, op)) =>
            /\ last_call'.ret > 0
            /\ st' = [st EXCEPT !.last_call = last_call',
                                !.last_cpu_prep_op[b] = op]
            /\ last_cpu_prep_op[b] = op =>
                  last_cpu_prep_op' = last_cpu_prep_op]_vars

C13_Witness ==
    \E b \in Bufs : \E j \in Jobs :
        /\ [job |-> j, usage |-> "WRITE"] \in resv[b]
        /\ finished[j].signaled
        /\ last_call.op = "prep_bo"
        /\ last_call.handle = b
        /\ last_call.arg = ROCKET_PREP_READ
        /\ last_call.ret > 0
        /\ ~last_call.tick

\* The timeout handler of core c looks at the fence of its job, for the first
\* time or again after synchronize_irq.
TimedoutChecks(c) == tpc[c] \in {"check1", "sync"} /\ tpc'[c] # tpc[c]

\* C21: a timeout handler that finds its job's fence signaled, at the first
\* check or at the re-check, returns without setting reset.pending, stopping
\* the scheduler, power-cycling the hardware or touching the slot: the step
\* changes nothing but the handler's own position.
C21_SpuriousTimeout ==
    [][\A c \in Cores :
          (TimedoutChecks(c) /\ done_fence[bad[c]].signaled) =>
             st' = [st EXCEPT !.tpc[c] = "idle", !.bad[c] = NULL]]_vars

C21_Witness ==
    \E c \in Cores :
        /\ tpc[c] = "sync"
        /\ done_fence[bad[c]].signaled
        /\ ~reset_pending[c] /\ ~stopped[c]

\* C22: reset.pending is set by the timeout handler before rocket_reset; the
\* scheduler is stopped only with reset.pending set; reset.pending is cleared
\* only with the scheduler stopped, an interrupt that was raised handled (a
\* job whose last task was issued has its fence signaled), the slot empty
\* and the core power-cycled; the scheduler restarts only with reset.pending
\* clear; and while reset.pending is set no step starts a task on the core.
C22_ResetOrdering ==
    [][\A c \in Cores :
          /\ (reset_pending'[c] /\ ~reset_pending[c]) =>
                (tpc[c] = "set_pending" /\ tpc'[c] = "stop" /\ ~stopped[c])
          /\ (stopped'[c] /\ ~stopped[c]) =>
                (reset_pending[c] /\ tpc[c] = "stop" /\ tpc'[c] = "irq")
          /\ (~reset_pending'[c] /\ reset_pending[c]) =>
                /\ stopped[c] /\ stopped'[c]
                /\ tpc[c] = "irq" /\ tpc'[c] = "resubmit"
                /\ hw'[c] = HwIdle
                /\ in_flight_job'[c] = NULL
                /\ \A j \in Jobs :
                      (in_flight_job[c] = j /\ next_task_idx[j] = task_count[j])
                        => done_fence'[j].signaled
          /\ (~stopped'[c] /\ stopped[c]) =>
                (~reset_pending[c] /\ tpc[c] = "resubmit" /\ tpc'[c] = "detach")
          /\ reset_pending[c] => (hw'[c].st = "busy" => hw'[c] = hw[c])]_vars

C22_Witness ==
    \E c \in Cores :
        /\ tpc[c] = "resubmit"
        /\ stopped[c]
        /\ ~reset_pending[c]
        /\ hw[c] = HwIdle
        /\ reset_count[bad[c]] = 1
        /\ ~finished[bad[c]].signaled

\* C28: a job that a reset was run for while it had not finished gets no
\* further task dispatched, finishes only with the error -ECANCELED, and no
\* second reset is ever run for it.
C28_NoRetry ==
    /\ [](\A j \in Jobs : reset_count[j] <= 1)
    /\ [][\A j \in Jobs :
            (reset_count[j] > 0 /\ ~finished[j].signaled) =>
               /\ next_task_idx'[j] = next_task_idx[j]
               /\ \A c \in Cores :
                     (hw'[c].st = "busy" /\ hw'[c].job = j) => hw'[c] = hw[c]
               /\ finished'[j].signaled => finished'[j].error = ECANCELED]_vars

C28_Witness ==
    \E j \in Jobs :
        /\ reset_count[j] = 1
        /\ finished[j].signaled
        /\ finished[j].error = ECANCELED
        /\ next_task_idx[j] < task_count[j]
        /\ \A c \in Cores : tpc[c] = "idle" /\ in_flight_job[c] # j

\* A step of rocket_reset on core c.
ResetActs(c) == tpc[c] \in {"stop", "irq", "resubmit"} /\ tpc'[c] # tpc[c]

\* C29: a step of rocket_reset on a core leaves the other cores' slots,
\* hardware, flags, schedulers and queues, the cursors and fences of the
\* jobs of other cores, and the fences of the jobs still queued on the core,
\* as they were.
C29_ResetIsolation ==
    [][\A c \in Cores : ResetActs(c) =>
          /\ \A d \in Cores \ {c} :
                /\ in_flight_job'[d] = in_flight_job[d]
                /\ hw'[d] = hw[d]
                /\ reset_pending'[d] = reset_pending[d]
                /\ stopped'[d] = stopped[d]
                /\ irq_mask'[d] = irq_mask[d]
                /\ queue'[d] = queue[d]
                /\ pending_list'[d] = pending_list[d]
                /\ credit_count'[d] = credit_count[d]
                /\ attached'[d] = attached[d]
          /\ \A j \in Jobs :
                (Submitted(j) /\ sched[j] # c) =>
                   /\ next_task_idx'[j] = next_task_idx[j]
                   /\ done_fence'[j] = done_fence[j]
                   /\ finished'[j] = finished[j]
          /\ queue'[c] = queue[c]
          /\ \A i \in 1..Len(queue[c]) :
                /\ finished'[queue[c][i]] = finished[queue[c][i]]
                /\ done_fence'[queue[c][i]] = done_fence[queue[c][i]]
                /\ next_task_idx'[queue[c][i]] = next_task_idx[queue[c][i]]]_vars

C29_Witness ==
    \E c \in Cores : \E d \in Cores \ {c} : \E j \in Jobs :
        /\ tpc[c] = "detach"
        /\ reset_count[bad[c]] = 1
        /\ finished[bad[c]].error = ECANCELED
        /\ in_flight_job[d] = j
        /\ hw[d] = [st |-> "busy", job |-> j, task |-> 0]
        /\ ~finished[j].signaled

\* C27: a core whose slot is empty and that has no reset in progress holds no
\* power reference: its usage count is at the idle baseline.
C27_PowerBalance ==
    \A c \in Cores :
        (in_flight_job[c] = NULL /\ ~reset_pending[c] /\ tpc[c] = "idle")
            => pm_usage[c] = 0

\* Job j is named by a queue, a pending list, a slot, the hardware or a
\* timeout handler.
InUse(j) ==
    \E c \in Cores :
        \/ in_flight_job[c] = j
        \/ hw[c].job = j
        \/ bad[c] = j
        \/ j \in pending_list[c]
        \/ \E i \in 1..Len(queue[c]) : queue[c][i] = j

\* C26: a job's reference count never goes below zero and rocket_job_cleanup
\* runs at most once for it; a pushed job is destroyed only after the fence
\* that reports it done has signaled, and a destroyed job is named by no
\* queue, pending list, slot, hardware task or timeout handler.
C26_JobLifetime ==
    \A j \in Jobs :
        /\ refcount[j] >= 0
        /\ cleanups[j] <= 1
        /\ Submitted(j) => (refcount[j] = 0 <=> cleanups[j] = 1)
        /\ (Submitted(j) /\ refcount[j] = 0) =>
              (finished[j].signaled /\ ~InUse(j))

C26_Witness ==
    \E j \in Jobs :
        /\ cleanups[j] = 1
        /\ refcount[j] = 0
        /\ reset_count[j] = 1
        /\ finished[j].error = ECANCELED

\* Descriptor i of args is reached by the loop of rocket_ioctl_submit: no
\* reserved field before it or in it is set.
Reached(args, i) ==
    args.reserved = 0 /\ \A k \in 1..i : args.jobs[k].reserved = 0

\* The descriptors of args that are reached and that rocket_ioctl_submit_job
\* accepts.
Accepted(args) ==
    {i \in 1..Len(args.jobs) :
        Reached(args, i) /\ rocket_ioctl_submit_job_ret(args.jobs[i]) = 0}

\* C30: whatever the state, a submit call returns -EINVAL exactly when the
\* reserved field of the call or of one of its descriptors is set and 0
\* otherwise, whatever rocket_ioctl_submit_job returned; and it queues, in
\* order, every acceptable job that precedes the first descriptor with a
\* reserved field, those after a refused job included.
C30_BatchResult ==
    \A args \in SubmitArgs : \A c \in SelectableCores :
        njobs + Len(args.jobs) <= NJobs =>
          LET r == rocket_ioctl_submit(Cur, args, c)
              n == Cardinality(Accepted(args))
          IN /\ r.last_call.ret =
                   (IF args.reserved # 0
                       \/ \E i \in 1..Len(args.jobs) : args.jobs[i].reserved # 0
                    THEN -EINVAL ELSE 0)
             /\ r.njobs = njobs + n
             /\ r.queue[c] = queue[c] \o [k \in 1..n |-> njobs + k]

C30_Witness ==
    \E c \in Cores :
        /\ last_call.op = "submit"
        /\ last_call.ret = -EINVAL
        /\ last_call.queued = 1
        /\ queue[c] # <<>>
        /\ queue[c][Len(queue[c])] = njobs

\* Thread t publishes its job's fence on the output buffers.
Attaches(t) == push[t].pc = "attach" /\ push'[t].pc = "unlock"

\* Job j has published its fence on buffer b.
Published(j, b) == \E f \in resv[b] : f.job = j

\* C23: when a submitter publishes its job's fence on a buffer, every fence
\* then on the buffer's record is in the wait set the job computed, so that
\* no fence was published between the computation and the publication; and
\* of two jobs that published on the same buffer, one waits for the other.
C23_AtomicDependency ==
    /\ [][\A t \in Threads : Attaches(t) =>
             \A b \in out_bos[push[t].job] : \A f \in resv[b] :
                 f.job \in deps[push[t].job] \cup {push[t].job}]_vars
    /\ [](\A j \in Jobs, k \in Jobs, b \in Bufs :
             j # k /\ Published(j, b) /\ Published(k, b) =>
                 k \in deps[j] \/ j \in deps[k])

\* Two submitters were inside rocket_job_push together: the one that entered
\* first waited for the locks and waits for the fence of the other.
C23_Witness ==
    \E b \in Bufs :
        /\ Published(1, b) /\ Published(2, b)
        /\ 2 \in deps[1]
        /\ \A t \in Threads : push[t].pc = "done" /\ push[t].ret = 0

\* C24: a thread that entered the submission of a job leaves it, whatever
\* the buffers of the concurrent submissions and their order.
C24_PushReturns ==
    \A t \in Threads : (push[t].pc \notin {"idle", "done"}) ~> (push[t].pc = "done")

\* Two submissions that list two shared buffers in opposite orders both
\* succeeded, one of them after backing off.
C24_Witness ==
    /\ \A t \in Threads : push[t].pc = "done" /\ push[t].ret = 0
    /\ \E t \in Threads : push[t].backoffs = 1
    /\ Len(push[1].bos) = 2 /\ push[1].bos[1] # push[1].bos[2]
    /\ push[2].bos = <<push[1].bos[2], push[1].bos[1]>>

\* Job j was handed to the scheduler or to a core.
Dispatched(j) ==
    \/ \E c \in Cores : \/ j \in {queue[c][k] : k \in 1..Len(queue[c])}
                         \/ j \in pending_list[c]
                         \/ in_flight_job[c] = j
    \/ next_task_idx[j] > 0
    \/ parent[j]
    \/ finished[j].signaled

\* C25: once rocket_job_push has failed at reserving a fence slot or adding
\* a dependency, the job is in no queue and was never run, no buffer carries
\* its fence, the thread holds neither a reservation lock nor sched_lock; and
\* when the call has returned, the job's dependencies and the job itself
\* have been released, once.
C25_FailedPushAborts ==
    \A t \in Threads : push[t].ret = -ENOMEM =>
        /\ ~Dispatched(push[t].job)
        /\ \A b \in Bufs : ~Published(push[t].job, b) /\ resv_lock[b] # t
        /\ push[t].held = {}
        /\ sched_lock # t
        /\ push[t].pc = "done" =>
              /\ deps[push[t].job] = {}
              /\ refcount[push[t].job] = 0
              /\ cleanups[push[t].job] = 1

\* A push failed at its output buffer after it had collected a dependency on
\* its input buffer, and the next submission on the buffers went through.
C25_Witness ==
    \E t \in Threads, u \in Threads :
        /\ push[t].ret = -ENOMEM /\ push[t].pc = "done"
        /\ push[t].nin = 1 /\ Len(push[t].bos) = 2
        /\ push[u].ret = 0 /\ push[u].pc = "done"
        /\ push[u].job > push[t].job
        /\ \E c \in Cores : \E k \in 1..Len(queue[c]) : queue[c][k] = push[u].job
        /\ push[t].bos[2] \in out_bos[push[u].job]

\* rocket_job_run has nothing to do for job j: its finished fence carries an
\* error or all its tasks were issued.
NothingToRun(s, j) ==
    s.finished[j].error # 0 \/ s.next_task_idx[j] = s.task_count[j]

\* The reset of core c hands its pending jobs to rocket_job_run again.
Resubmits(c) == tpc[c] = "resubmit" /\ tpc'[c] = "detach"

\* C31: in every state, also right after drm_sched_resubmit_jobs has set
\* -ECANCELED on the job, rocket_job_run on a job with an errored fence or
\* with all tasks issued returns no fence and changes nothing; accordingly a
\* reset that resubmits such a job creates no fence, leaves the sequence
\* counter, the slot, the attachment and the cursor alone and starts no task.
C31_RunNoOp ==
    /\ [](\A j \in 1..njobs : \A ok \in BOOLEAN :
            LET s1 == [Cur EXCEPT !.finished[j].error = ECANCELED] IN
            /\ NothingToRun(Cur, j) =>
                  rocket_job_run(Cur, j, ok) = [st |-> Cur, fence |-> FALSE]
            /\ rocket_job_run(s1, j, ok) = [st |-> s1, fence |-> FALSE])
    /\ [][\A c \in Cores : \A j \in pending_list[c] :
            Resubmits(c) /\ (karma[j] > hang_limit \/ NothingToRun(Cur, j)) =>
               /\ ~parent'[j]
               /\ done_fence'[j] = done_fence[j]
               /\ emit_seqno'[c] = emit_seqno[c]
               /\ in_flight_job'[c] = in_flight_job[c]
               /\ attached'[c] = attached[c]
               /\ next_task_idx'[j] = next_task_idx[j]
               /\ hw'[c] = hw[c]]_vars

\* A reset has resubmitted a hung job whose tasks were all issued and whose
\* fence carries -ECANCELED: the job has no hardware fence.
C31_Witness ==
    \E c \in Cores :
        /\ tpc[c] = "detach"
        /\ bad[c] # NULL
        /\ finished[bad[c]].error = ECANCELED
        /\ next_task_idx[bad[c]] = task_count[bad[c]]
        /\ ~parent[bad[c]]

\* The run work of core c runs the job at the head of its queue and the
\* power-up or the attach fails.
RunFails(c) ==
    queue[c] # <<>> /\ queue'[c] = Tail(queue[c]) /\ faults' = faults + 1

\* Job j has a hardware fence that has not signaled, and is not in the slot
\* of its core.
Stranded(j) ==
    /\ parent[j]
    /\ ~done_fence[j].signaled
    /\ ~finished[j].signaled
    /\ in_flight_job[sched[j]] # j

\* A stretch of rocket_reset runs on core c.
ResetSteps(c) == tpc[c] \in {"stop", "irq", "resubmit"} /\ tpc'[c] # tpc[c]

\* C32: a run whose power-up or attach fails returns a new unsignaled fence,
\* leaves the slot, the cursor and the hardware as they were; a hardware
\* fence is only signaled for the job in the slot; and a job with an
\* unsignaled hardware fence that is not in the slot stays so until
\* rocket_reset, called by the timeout handler, runs on its core.
C32_FailedRun ==
    /\ [](\A j \in 1..njobs : ~NothingToRun(Cur, j) =>
            LET r == rocket_job_run(Cur, j, FALSE) IN
            /\ r.fence
            /\ r.st.done_fence[j] =
                  [seqno |-> emit_seqno[sched[j]] + 1, signaled |-> FALSE]
            /\ r.st.in_flight_job = in_flight_job
            /\ r.st.next_task_idx = next_task_idx
            /\ r.st.hw = hw)
    /\ [][\A c \in Cores : RunFails(c) =>
            /\ parent'[Head(queue[c])]
            /\ ~done_fence'[Head(queue[c])].signaled
            /\ done_fence'[Head(queue[c])].seqno = emit_seqno[c] + 1
            /\ in_flight_job' = in_flight_job
            /\ next_task_idx' = next_task_idx
            /\ hw' = hw]_vars
    /\ [][\A j \in 1..njobs :
            /\ (~done_fence[j].signaled /\ done_fence'[j].signaled) =>
                   in_flight_job[sched[j]] = j
            /\ (Stranded(j) /\ ~Stranded(j)') => ResetSteps(sched[j])]_vars

\* A job whose power-up failed before any task was started has left through
\* the timeout and the reset: its finished fence carries -ECANCELED, its
\* hardware fence never signaled.
C32_Witness ==
    \E j \in 1..njobs :
        /\ next_task_idx[j] = 0
        /\ reset_count[j] > 0
        /\ done_fence[j].seqno > 0
        /\ ~done_fence[j].signaled
        /\ finished[j].signaled
        /\ finished[j].error = ECANCELED

====
